---- MODULE Spec2Model ----
(***************************************************************************)
(* The pipeline orchestrator of the AI Instagram Content Generator UI:     *)
(* service_ui/utils/workflow_manager.py (WorkflowManager), the HTTP client *)
(* service_ui/services/microservice_client.py (MicroserviceClient), the    *)
(* buttons of service_ui/app.py that drive them, and the launcher          *)
(* start_all.py.                                                           *)
(*                                                                         *)
(* Python dicts are functions whose DOMAIN is the set of keys, so that     *)
(* d.get(k, default) is Get(d, k, default).  Scores are hundredths         *)
(* (0.72 is 72).  A status-log entry is modelled without its wall-clock    *)
(* 'time' field.                                                           *)
(*                                                                         *)
(* Specifications:                                                         *)
(*   Spec          one session driven through the buttons of app.py        *)
(*   SpecSessions  two sessions served by the same cached objects          *)
(*   SpecHealth    Spec with the sidebar's "Check Services" button         *)
(*   SpecCancel    Spec with a user who asks for cancellation              *)
(*   SpecAPI       the WorkflowManager methods called in any order         *)
(*   SpecClient    the MicroserviceClient methods called on their own      *)
(*   SpecSteps     one stage operation followed gateway call by call       *)
(*   SpecFaults    Spec where a client method may raise with an empty text *)
(*   SpecLauncher  start_all.py: main() and the service processes          *)
(***************************************************************************)
EXTENDS Integers, Sequences, FiniteSets, TLC

VARIABLES
    workflow_state,   \* st.session_state.workflow_state of session A
    history,          \* the operations of session A so far, oldest first:
                      \* each with its name, the bool it returned and the
                      \* gateway calls it made, in order
    peer_state,       \* st.session_state.workflow_state of a second session, B
    peer_history,     \* the operations of session B so far
    health_status,    \* what the sidebar of session A shows after "Check
                      \* Services" in the current script run
    cancel_requested, \* the user of session A has asked to cancel the run
    running,          \* the stage operation session A is in the middle of, when
                      \* operations are followed call by call
    launcher          \* start_all.py: where main is, its processes list, the
                      \* children and what it has printed

vars == <<workflow_state, history, peer_state, peer_history, health_status,
          cancel_requested, running, launcher>>

\* ---------------------------------------------------------------- bounds
MaxOps == 4         \* stage operations triggered per session
MaxFiles == 1       \* files selected in the uploader
MaxTrends == 6      \* trend titles the trend service returns
MaxReruns == 1      \* operations triggered after the scenario run has finalized
MaxClientCalls == 2 \* client methods called directly, one after the other
MaxProbedOps == 1   \* "Check Services" is pressed after at most this many operations
MaxStepOps == 1     \* operations followed call by call from one starting state
MaxDirectOps == 3   \* WorkflowManager methods called directly, in any order
MaxFaultOps == 4    \* operations triggered while a client method may raise anything

\* ------------------------------------------------------- python values
None == [None |-> TRUE]

IsNone(v) == v = None

Get(d, k, default) == IF k \in DOMAIN d THEN d[k] ELSE default

TakeAll(s, n) == s

\* x[:n]
Take(s, n) == SubSeq(s, 1, IF Len(s) < n THEN Len(s) ELSE n)

\* ------------------------------------------------- remote stage replies
\* What one HTTP exchange with a service can produce: a 2xx reply with a
\* JSON body, a non-2xx reply carrying the service's detail message, a 2xx
\* reply whose body is not JSON, no reply in time, or no connection at all.
HttpOk(body) == [kind |-> "2xx", body |-> body]

HttpError(status, detail) == [kind |-> "http_error", status |-> status, detail |-> detail]

HttpTimeout == [kind |-> "timeout"]

HttpConnectionError == [kind |-> "connection_error"]

HttpMalformed == [kind |-> "malformed"]

\* Any other exception raised inside a client method's try block: the handler
\* catches Exception, whatever its class and whatever str(e) is.
HttpRaised(text) == [kind |-> "raised", text |-> text]

\* str(e) of the exception requests raises for a reply: raise_for_status
\* builds its own text from the status line, a timeout, a refused connection
\* and a body that does not parse have the library's text.  None of them is
\* the detail message the service put in the body.
StrOfExceptionEmpty(reply) == ""

StrOfException(reply) ==
    CASE reply.kind = "http_error" -> ToString(reply.status) \o " Server Error"
      [] reply.kind = "timeout" -> "Read timed out"
      [] reply.kind = "connection_error" -> "Connection refused"
      [] reply.kind = "raised" -> reply.text
      [] OTHER -> "Expecting value"

\* The try block shared by every client method:
\*   response = requests...; response.raise_for_status(); return response.json()
\* It returns the parsed body or raises.
TryRequest(reply) ==
    IF reply.kind = "2xx"
    THEN [returned |-> reply.body]
    ELSE [raised |-> StrOfException(reply)]

\* ... and its handler:
\*   except Exception as e: return {"error": str(e), "success": False}
ClientResultUncaught(reply) ==
    LET r == TryRequest(reply)
    IN  IF "raised" \in DOMAIN r THEN r ELSE r.returned

ClientResult(reply) ==
    LET r == TryRequest(reply)
    IN  IF "raised" \in DOMAIN r
        THEN [error |-> r.raised, success |-> FALSE]
        ELSE r.returned

default_timeout == 120

\* requests.post(url, json=request_data, timeout=180)
generate_timeout_as_default == default_timeout

generate_timeout == 180

upload_images(files, reply) ==
    [gw |-> "upload",
     request |-> [files |-> [i \in 1..Len(files) |-> <<"images", i - 1, files[i]>>],
                  description |-> "AI Instagram Content Generator Upload"],
     timeout |-> default_timeout,
     reply |-> reply,
     result |-> ClientResult(reply)]

get_youtube_trends(reply) ==
    [gw |-> "trend",
     request |-> <<>>,
     timeout |-> default_timeout,
     reply |-> reply,
     result |-> ClientResult(reply)]

\* keywords or []; the description sent is a fixed text and no folder_id
\* query parameter is sent when folder_id is None
analyze_drive_content(folder_id, keywords, reply) ==
    [gw |-> "analysis",
     request |-> [keywords |-> keywords,
                  description |-> "AI Instagram Content Analysis",
                  params |-> IF IsNone(folder_id) THEN <<>> ELSE [folder_id |-> folder_id]],
     timeout |-> default_timeout,
     reply |-> reply,
     result |-> ClientResult(reply)]

generate_instagram_content(visual_summary, keywords, video_summary, trends, style, reply) ==
    [gw |-> "generation",
     request |-> [visual_summary |-> visual_summary,
                  video_summary |-> video_summary,
                  keywords |-> keywords,
                  trends |-> trends,
                  poster_style |-> style,
                  include_trends |-> (trends # <<>>)],
     timeout |-> generate_timeout,
     reply |-> reply,
     result |-> ClientResult(reply)]

assess_image_quality(image_path, prompt, reply) ==
    [gw |-> "quality_assess",
     request |-> [image_path |-> image_path, prompt |-> prompt],
     timeout |-> default_timeout,
     reply |-> reply,
     result |-> ClientResult(reply)]

finalize_content(image_path, original_prompt, style, platform, max_hashtags, reply) ==
    [gw |-> "quality_finalize",
     request |-> [image_path |-> image_path,
                  original_prompt |-> original_prompt,
                  style |-> style,
                  platform |-> platform,
                  max_hashtags |-> max_hashtags],
     timeout |-> default_timeout,
     reply |-> reply,
     result |-> ClientResult(reply)]

Services == {"upload", "analysis", "trend", "generation", "quality"}

health_timeout == 5

\* requests.get(url, timeout=5); return response.status_code == 200
\* except Exception: return False
\* The body is not parsed; services answer /health with 200 when they answer 2xx.
ProbeRaises(reply) == reply.kind \in {"timeout", "connection_error"}

check_service_health_uncaught(service_name, reply) ==
    [gw |-> "health",
     request |-> service_name,
     timeout |-> health_timeout,
     reply |-> reply,
     result |-> IF ProbeRaises(reply)
                THEN [raised |-> StrOfException(reply)]
                ELSE [healthy |-> reply.kind \in {"2xx", "malformed"}]]

check_service_health(service_name, reply) ==
    [gw |-> "health",
     request |-> service_name,
     timeout |-> health_timeout,
     reply |-> reply,
     result |-> IF ProbeRaises(reply)
                THEN [healthy |-> FALSE]
                ELSE [healthy |-> reply.kind \in {"2xx", "malformed"}]]

\* one probe per service of self.services; replies holds the exchange with
\* each.  An exception that left check_service_health would leave this
\* method too.
check_all_services(replies) ==
    LET probe(service_name) == check_service_health(service_name, replies[service_name]).result
    IN  IF \E service_name \in Services : "raised" \in DOMAIN probe(service_name)
        THEN [raised |-> "check_service_health"]
        ELSE [service_name \in Services |-> probe(service_name).healthy]

\* ------------------------------------------------------ workflow state
InitialState ==
    [step |-> 0,
     trend_data |-> None,
     analysis_data |-> None,
     generation_data |-> None,
     quality_data |-> None,
     uploaded_files |-> <<>>,
     status_logs |-> <<>>,
     final_output |-> None]

reset_workflow_state(ws) == InitialState

\* the status argument is dropped and every entry gets the default "info"
add_status_log_default_status(ws, message, args, status) ==
    [k \in DOMAIN ws |->
        IF k = "status_logs"
        THEN Append(ws.status_logs, [message |-> message, args |-> args, status |-> "info"])
        ELSE ws[k]]

add_status_log_dropped(ws, message, args, status) == ws

\* the new entry replaces the log instead of extending it
add_status_log_overwriting(ws, message, args, status) ==
    [k \in DOMAIN ws |->
        IF k = "status_logs"
        THEN <<[message |-> message, args |-> args, status |-> status]>>
        ELSE ws[k]]

\* a warning is logged with error severity
add_status_log_warning_as_error(ws, message, args, status) ==
    [k \in DOMAIN ws |->
        IF k = "status_logs"
        THEN Append(ws.status_logs,
                    [message |-> message, args |-> args,
                     status |-> IF status = "warning" THEN "error" ELSE status])
        ELSE ws[k]]

add_status_log(ws, message, args, status) ==
    [k \in DOMAIN ws |->
        IF k = "status_logs"
        THEN Append(ws.status_logs, [message |-> message, args |-> args, status |-> status])
        ELSE ws[k]]

\* ws[key] = value, adding the key when the dict does not have it yet
SetKey(ws, key, value) ==
    [k \in DOMAIN ws \cup {key} |-> IF k = key THEN value ELSE ws[k]]

\* upload_result.get('success', False)
UploadSucceededAlways(upload_result) == TRUE

UploadSucceeded(upload_result) == Get(upload_result, "success", FALSE)

\* A client call as the operation makes it: log_len is the length of the
\* status log at the statement that makes the call.
At(ws, call) ==
    [k \in DOMAIN call \cup {"log_len"} |->
        IF k = "log_len" THEN Len(ws.status_logs) ELSE call[k]]

\* The outcome of one stage operation: the state it leaves, the bool it
\* returns and the gateway calls it made.
\* a failed operation makes its calls a second time before it returns
OutcomeRetrying(ws, ret, cs) ==
    [ws |-> ws, ret |-> ret, calls |-> IF ret THEN cs ELSE cs \o cs]

Outcome(ws, ret, cs) == [ws |-> ws, ret |-> ret, calls |-> cs]

upload_materials(ws, uploaded_files, keywords, description, reply) ==
    LET ws1 == add_status_log(ws, "Materyaller yukleniyor...", <<>>, "info")
        call == At(ws1, upload_images(uploaded_files, reply))
        upload_result == call.result
    IN  IF UploadSucceeded(upload_result)
        THEN LET ws2 == SetKey(ws1, "uploaded_files",
                               Get(Get(upload_result, "assets", <<>>), "images", <<>>))
                 ws3 == SetKey(ws2, "keywords", keywords)
                 ws4 == SetKey(ws3, "description", description)
                 ws5 == SetKey(ws4, "step", 1)
                 uploaded_count == Get(upload_result, "uploaded_count", Len(uploaded_files))
                 ws6 == add_status_log(ws5, "dosya basariyla yuklendi",
                                       <<ToString(uploaded_count)>>, "success")
                 ws7 == add_status_log(ws6, "Process adimi icin hazir", <<>>, "info")
             IN  Outcome(ws7, TRUE, <<call>>)
        ELSE LET error_msg == Get(upload_result, "error", "Bilinmeyen hata")
                 ws2 == add_status_log(ws1, "Yukleme hatasi", <<error_msg>>, "error")
             IN  Outcome(ws2, FALSE, <<call>>)

\* result.get('error'): truthy when the key is there with a non-empty text
HasErrorNever(result) == FALSE

HasError(result) == "error" \in DOMAIN result /\ result.error # ""

\* {"trends": [], "hashtags": []}
TrendDefaultAbsent == None

TrendDefault == [trends |-> <<>>, hashtags |-> <<>>]

\* str(e) of the AttributeError raised by None.get(...)
NoneTypeError == "'NoneType' object has no attribute 'get'"

start_process(ws, trend_reply, analysis_reply) ==
    LET ws1 == add_status_log(ws, "Islem baslatiliyor...", <<>>, "info")
        ws2 == add_status_log(ws1, "YouTube trend analizi yapiliyor...", <<>>, "info")
        trend_call == At(ws2, get_youtube_trends(trend_reply))
        trend_result == trend_call.result
        ws3 == IF HasError(trend_result)
               THEN SetKey(add_status_log(ws2, "Trend analizi hatasi",
                                          <<trend_result.error>>, "warning"),
                           "trend_data", TrendDefault)
               ELSE add_status_log(SetKey(ws2, "trend_data", trend_result),
                                   "trend analizi tamamlandi",
                                   <<ToString(Len(Get(trend_result, "trends", <<>>)))>>,
                                   "success")
        ws4 == add_status_log(ws3, "Yuklenen materyaller analiz ediliyor...", <<>>, "info")
        keywords == Get(ws4, "keywords", <<>>)
        description == Get(ws4, "description", "")
        analysis_call == At(ws4, analyze_drive_content(None, keywords, analysis_reply))
        analysis_result == analysis_call.result
        cs == <<trend_call, analysis_call>>
    IN  IF HasError(analysis_result)
        THEN Outcome(add_status_log(ws4, "Materyal analizi hatasi",
                                    <<analysis_result.error>>, "error"),
                     FALSE, cs)
        ELSE LET ws5 == SetKey(ws4, "analysis_data", analysis_result)
                 keyword_count == Len(Get(analysis_result, "keywords", <<>>))
                 ws6 == add_status_log(ws5, "Materyal analizi tamamlandi - anahtar kelime",
                                       <<ToString(keyword_count)>>, "success")
                 ws7 == SetKey(ws6, "step", 2)
                 ws8 == add_status_log(ws7, "Islem tamamlandi - Gorsel uretimi icin hazir",
                                       <<>>, "success")
             IN  Outcome(ws8, TRUE, cs)

generate_content(ws, style, reply) ==
    LET ws1 == add_status_log(ws, "Icerik uretimi baslatiliyor...", <<>>, "info")
        analysis_data == Get(ws1, "analysis_data", <<>>)
        trend_data == Get(ws1, "trend_data", <<>>)
    IN  IF IsNone(analysis_data) \/ IsNone(trend_data)
        THEN Outcome(add_status_log(ws1, "Icerik uretimi sirasinda hata",
                                    <<NoneTypeError>>, "error"),
                     FALSE, <<>>)
        ELSE
    LET visual_summary == Get(analysis_data, "visual_summary", "AI generated content")
        video_summary == Get(analysis_data, "video_summary", "")
        keywords == Get(analysis_data, "keywords", <<>>)
        trends == Take(Get(trend_data, "trends", <<>>), 5)
        ws2 == add_status_log(ws1, "Prompt hazirlaniyor - anahtar kelime, trend",
                              <<ToString(Len(keywords)), ToString(Len(trends))>>, "info")
        call == At(ws2, generate_instagram_content(visual_summary, keywords, video_summary,
                                                   trends, style, reply))
        generation_result == call.result
    IN  IF HasError(generation_result)
        THEN Outcome(add_status_log(ws2, "Icerik uretimi hatasi",
                                    <<generation_result.error>>, "error"),
                     FALSE, <<call>>)
        ELSE LET ws3 == SetKey(ws2, "generation_data", generation_result)
                 filename == Get(generation_result, "filename", "Bilinmiyor")
                 ws4 == add_status_log(ws3, "Gorsel uretildi", <<filename>>, "success")
                 ws5 == SetKey(ws4, "step", 3)
             IN  Outcome(ws5, TRUE, <<call>>)

\* quality_score = 0.7  # Varsayilan skor
default_quality_score_low == 70 - 20

default_quality_score == 70

\* the style handed to finalize_content: style="modern", whatever was generated
finalize_style_of_generation(generation_data) ==
    Get(Get(generation_data, "metadata", <<>>), "style", "modern")

finalize_style(generation_data) == "modern"

assess_quality(ws, assess_reply, finalize_reply) ==
    LET ws1 == add_status_log(ws, "Kalite degerlendirmesi baslatiliyor...", <<>>, "info")
        generation_data == Get(ws1, "generation_data", <<>>)
        analysis_data == Get(ws1, "analysis_data", <<>>)
    IN  IF IsNone(generation_data) \/ IsNone(analysis_data)
        THEN Outcome(add_status_log(ws1, "Kalite degerlendirmesi sirasinda hata",
                                    <<NoneTypeError>>, "error"),
                     FALSE, <<>>)
        ELSE
    LET image_path == Get(generation_data, "image_path", "")
        prompt == Get(analysis_data, "visual_summary", "AI generated content")
        quality_call == At(ws1, assess_image_quality(image_path, prompt, assess_reply))
        quality_result == quality_call.result
        quality_score ==
            IF HasError(quality_result)
            THEN default_quality_score
            ELSE Get(Get(Get(quality_result, "quality_assessment", <<>>),
                         "overall_score", <<>>),
                     "overall_score", 70)
        ws2 == IF HasError(quality_result)
               THEN add_status_log(ws1, "Kalite degerlendirmesi hatasi",
                                   <<quality_result.error>>, "warning")
               ELSE add_status_log(ws1, "Kalite skoru", <<ToString(quality_score)>>, "info")
        ws3 == add_status_log(ws2, "Icerik finalize ediliyor...", <<>>, "info")
        finalize_call == At(ws3, finalize_content(image_path, prompt,
                                                  finalize_style(generation_data), "instagram",
                                                  15, finalize_reply))
        finalize_result == finalize_call.result
        cs == <<quality_call, finalize_call>>
    IN  IF HasError(finalize_result)
        THEN Outcome(add_status_log(ws3, "Finalizasyon hatasi",
                                    <<finalize_result.error>>, "error"),
                     FALSE, cs)
        ELSE LET final_output == [image_data |-> generation_data,
                                  quality_data |-> quality_result,
                                  finalized_content |-> finalize_result,
                                  quality_score |-> quality_score]
                 ws4 == SetKey(ws3, "quality_data", quality_result)
                 ws5 == SetKey(ws4, "final_output", final_output)
                 ws6 == SetKey(ws5, "step", 4)
                 hashtag_count == Len(Get(Get(finalize_result, "finalized_content", <<>>),
                                          "hashtags", <<>>))
                 ws7 == add_status_log(ws6, "Icerik hazir! hashtag olusturuldu",
                                       <<ToString(hashtag_count)>>, "success")
                 ws8 == add_status_log(ws7, "Yayinlamaya hazir!", <<>>, "success")
             IN  Outcome(ws8, TRUE, cs)

get_current_step(ws) == Get(ws, "step", 0)

\* ------------------------------------------------------- the services
\* service_upload: one Drive receipt per uploaded image, or HTTP 500.
UploadReplies(files) ==
    { HttpOk([success |-> TRUE,
              uploaded_count |-> Len(files),
              assets |-> [images |-> [i \in 1..Len(files) |-> [id |-> files[i]]],
                          description |-> "AI Instagram Content Generator Upload"]]),
      HttpError(500, "Upload failed"),
      HttpTimeout }

\* service_trend /analyzes/youtube: the mock list while no API key is set,
\* the titles of the YouTube API once one is, and, when that API call
\* raises, a 200 reply that carries fallback trends together with an error.
TrendTitles(n) == [i \in 1..n |-> "trend" \o ToString(i)]

TrendReplies ==
    { HttpOk([platform |-> "youtube",
              trends |-> <<"AI Technology", "Gaming Setup", "Content Creation", "Digital Art">>,
              hashtags |-> <<"#AI", "#Technology", "#Gaming", "#ContentCreator">>,
              status |-> "success",
              data_source |-> "mock_data"]),
      HttpOk([platform |-> "youtube", trends |-> TrendTitles(MaxTrends), status |-> "success"]),
      HttpOk([platform |-> "youtube",
              trends |-> <<"AI Technology", "Gaming Setup", "Content Creation">>,
              hashtags |-> <<"#AI", "#Technology", "#Gaming">>,
              status |-> "error",
              error |-> "quotaExceeded",
              data_source |-> "fallback"]),
      HttpTimeout }

\* service_analysis /analyzes/drive/enhanced
AnalysisReplies ==
    { HttpOk([visual_summary |-> "a puzzle board",
              video_summary |-> "",
              keywords |-> <<"puzzle", "mobile">>]),
      HttpError(500, "Enhanced Drive analizi sirasinda hata"),
      HttpTimeout }

\* service_generation /generate/poster
GenerationReplies(style) ==
    { HttpOk([success |-> TRUE,
              poster_created |-> TRUE,
              image_path |-> "tmp/poster_123.png",
              filename |-> "poster_123.png",
              download_url |-> "/generate/poster/download/poster_123.png",
              metadata |-> [style |-> style]]),
      HttpError(500, "Poster generation failed"),
      HttpTimeout }

\* service_quality /quality/assess: the scores, or, when the agent could not
\* score the image, a 200 reply whose assessment holds the agent's error
AssessReplies ==
    { HttpOk([success |-> TRUE,
              quality_assessment |-> [overall_score |-> [overall_score |-> 72,
                                                         quality_level |-> "good"]]]),
      HttpOk([success |-> TRUE,
              quality_assessment |-> [error |-> "cannot identify image file",
                                      status |-> "failed"]]),
      HttpError(500, "Assessment failed"),
      HttpTimeout }

\* service_quality /quality/finalize
Hashtags(n) == [i \in 1..n |-> "#tag" \o ToString(i)]

FinalizeReplies ==
    { HttpOk([success |-> TRUE,
              finalized_content |-> [caption |-> "caption",
                                     hashtags |-> Hashtags(9),
                                     hashtag_count |-> 9]]),
      HttpError(500, "Finalization failed"),
      HttpTimeout }

\* --------------------------------------------------------- the UI (app.py)
FileSelections == { [i \in 1..n |-> "file"] : n \in 0..MaxFiles }

\* The text typed in the keywords box, as its comma-separated segments.
KeywordInputs == { <<"">>, <<" ", " ">>, <<"puzzle", " mobile">> }

Strip(segment) ==
    CASE segment = " " -> ""
      [] segment = " mobile" -> "mobile"
      [] OTHER -> segment

\* [k.strip() for k in keywords_input.split(",") if k.strip()]
ParseKeywords(segments) ==
    LET stripped == [i \in 1..Len(segments) |-> Strip(segments[i])]
    IN  SelectSeq(stripped, LAMBDA k : k # "")

\* not uploaded_files or not keywords_input
upload_disabled(files, segments) == files = <<>> \/ segments = <<"">>

Descriptions == { "a puzzle game" }

\* st.session_state is the state of the session whose script run is
\* executing: an operation triggered in session s reads and writes the
\* workflow_state of s, although WorkflowManager itself is one cached object
SessionOfShared(s) == "A"

SessionOf(s) == s

State(s) == IF SessionOf(s) = "A" THEN workflow_state ELSE peer_state

StageCount(h) == Len(SelectSeq(h, LAMBDA e : e.op # "reset_workflow_state"))

\* the stage operations triggered so far, in both sessions
n_ops == StageCount(history) + StageCount(peer_history)

ReplyKinds(cs) == [i \in DOMAIN cs |-> cs[i].reply.kind]

\* session A began with the scenario run: upload_materials, start_process,
\* generate_content and assess_quality once each, in this order, where only
\* the Trend call fails, with a timeout
StartsWithScenario ==
    /\ Len(history) >= 4
    /\ [i \in 1..4 |-> history[i].op]
         = <<"upload_materials", "start_process", "generate_content", "assess_quality">>
    /\ ReplyKinds(history[1].calls) = <<"2xx">>
    /\ ReplyKinds(history[2].calls) = <<"timeout", "2xx">>
    /\ ReplyKinds(history[3].calls) = <<"2xx">>
    /\ ReplyKinds(history[4].calls) = <<"2xx", "2xx">>

\* what is explored: MaxOps operations, and MaxReruns more in session A once
\* the scenario run has finalized
CanTrigger(s) ==
    \/ n_ops < MaxOps
    \/ /\ s = "A"
       /\ peer_history = <<>>
       /\ StartsWithScenario
       /\ StageCount(history) < 4 + MaxReruns

NotShown == [shown |-> FALSE]

\* no stage operation is under way in session A
Idle == [op |-> "idle", begun |-> 0]

\* start_all.py has not been run
NotLaunched == [pc |-> "not_started"]

\* the operation has returned: its writes are in the session's state
Commit(s, name, out) ==
    LET entry == [op |-> name, ret |-> out.ret, calls |-> out.calls]
    IN  /\ IF SessionOf(s) = "A"
           THEN workflow_state' = out.ws /\ UNCHANGED peer_state
           ELSE peer_state' = out.ws /\ UNCHANGED workflow_state
        /\ IF s = "A"
           THEN /\ history' = Append(history, entry)
                /\ health_status' = NotShown
                /\ UNCHANGED peer_history
           ELSE /\ peer_history' = Append(peer_history, entry)
                /\ UNCHANGED <<history, health_status>>

\* an operation taken as one step, from the press of its button to its return
Done(s, name, out) ==
    /\ Commit(s, name, out)
    /\ UNCHANGED <<cancel_requested, running, launcher>>

UploadButton(s) ==
    /\ CanTrigger(s)
    /\ \E files \in FileSelections, segments \in KeywordInputs, description \in Descriptions :
         /\ ~upload_disabled(files, segments)
         /\ \E reply \in UploadReplies(files) :
              Done(s, "upload_materials",
                   upload_materials(State(s), files, ParseKeywords(segments),
                                    description, reply))

\* len(uploaded_files) == 0 or len(keywords) == 0
process_disabled(ws) ==
    Len(Get(ws, "uploaded_files", <<>>)) = 0 \/ Len(Get(ws, "keywords", <<>>)) = 0

ProcessButton(s) ==
    /\ CanTrigger(s)
    /\ ~process_disabled(State(s))
    /\ \E trend_reply \in TrendReplies, analysis_reply \in AnalysisReplies :
         Done(s, "start_process", start_process(State(s), trend_reply, analysis_reply))

\* the style offered by the selectbox, "modern" when the styles cannot be read
Styles == { "modern", "vintage" }

generate_disabled(ws) == get_current_step(ws) < 2

GenerateButton(s) ==
    /\ CanTrigger(s)
    /\ ~generate_disabled(State(s))
    /\ \E style \in Styles :
         \E reply \in GenerationReplies(style) :
            Done(s, "generate_content", generate_content(State(s), style, reply))

quality_disabled(ws) == get_current_step(ws) < 3

QualityButton(s) ==
    /\ CanTrigger(s)
    /\ ~quality_disabled(State(s))
    /\ \E assess_reply \in AssessReplies, finalize_reply \in FinalizeReplies :
         Done(s, "assess_quality", assess_quality(State(s), assess_reply, finalize_reply))

\* "Start New Workflow" is drawn only while final_output is set
ResetButton(s) ==
    /\ ~IsNone(State(s).final_output)
    /\ Done(s, "reset_workflow_state",
            Outcome(reset_workflow_state(State(s)), TRUE, <<>>))

Init ==
    /\ workflow_state = InitialState
    /\ history = <<>>
    /\ peer_state = InitialState
    /\ peer_history = <<>>
    /\ health_status = NotShown
    /\ cancel_requested = FALSE
    /\ running = Idle
    /\ launcher = NotLaunched

Next ==
    \/ UploadButton("A")
    \/ ProcessButton("A")
    \/ GenerateButton("A")
    \/ QualityButton("A")
    \/ ResetButton("A")

Spec == Init /\ [][Next]_vars


\* ------------------------------------------------------ a second session
\* The same page opened in a second browser session: the same buttons, run
\* by the same cached WorkflowManager, on that session's st.session_state.
NextPeer ==
    \/ UploadButton("B")
    \/ ProcessButton("B")
    \/ GenerateButton("B")
    \/ QualityButton("B")
    \/ ResetButton("B")

NextSessions ==
    \/ Next
    \/ NextPeer

SpecSessions == Init /\ [][NextSessions]_vars

\* ------------------------------------------------------- the health check
\* def check_services_health(self): return self.client.check_all_services()
check_services_health(replies) == check_all_services(replies)

\* what a service answers on /health, or that it does not answer
ProbeReplies == { HttpOk([status |-> "healthy"]), HttpError(500, "Internal Server Error"),
                  HttpConnectionError }

\* The sidebar button: the result is drawn, one line per service, in this
\* script run and kept nowhere else.
HealthButton ==
    /\ n_ops <= MaxProbedOps
    /\ \E replies \in [Services -> ProbeReplies] :
         health_status' = [shown |-> TRUE, result |-> check_services_health(replies)]
    /\ UNCHANGED <<workflow_state, history, peer_state, peer_history, cancel_requested,
                   running, launcher>>

NextHealth ==
    \/ Next
    \/ HealthButton

SpecHealth == Init /\ [][NextHealth]_vars

\* ----------------------------------------------------------- cancellation
\* The user asks for the run of session A to be cancelled.  Nothing in
\* WorkflowManager or app.py stores or reads such a request: the request is
\* the caller's, and the operations run as they do without it.
RequestCancel ==
    /\ ~cancel_requested
    /\ cancel_requested' = TRUE
    /\ UNCHANGED <<workflow_state, history, peer_state, peer_history, health_status,
                   running, launcher>>

NextCancel ==
    \/ Next
    \/ RequestCancel

SpecCancel == Init /\ [][NextCancel]_vars

\* ------------------------------------------ operations, call by call
\* One stage operation of session A followed through its gateway calls.  A
\* client method is an ordinary blocking call (requests.post/get inside it
\* returns only with the reply or the exception), so the statement after it
\* runs once it has returned.  The replies are drawn when the operation
\* begins; its writes to the state are applied when it returns.
OkReply(replies) ==
    CHOOSE r \in replies :
        /\ r.kind = "2xx"
        /\ "error" \notin DOMAIN r.body
        /\ Get(r.body, "data_source", "mock_data") = "mock_data"

\* the states a run passes through when every stage succeeds at once
RefUpload ==
    upload_materials(InitialState, <<"file">>, <<"puzzle", "mobile">>, "a puzzle game",
                     OkReply(UploadReplies(<<"file">>)))

RefProcess == start_process(RefUpload.ws, OkReply(TrendReplies), OkReply(AnalysisReplies))

RefGenerate == generate_content(RefProcess.ws, "modern", OkReply(GenerationReplies("modern")))

RefRun ==
    << [op |-> "upload_materials", out |-> RefUpload],
       [op |-> "start_process", out |-> RefProcess],
       [op |-> "generate_content", out |-> RefGenerate] >>

RefState(k) == IF k = 0 THEN InitialState ELSE RefRun[k].out.ws

RefHistory(k) ==
    [i \in 1..k |-> [op |-> RefRun[i].op, ret |-> RefRun[i].out.ret,
                     calls |-> RefRun[i].out.calls]]

InitSteps ==
    /\ \E k \in 0..Len(RefRun) :
         /\ workflow_state = RefState(k)
         /\ history = RefHistory(k)
    /\ peer_state = InitialState
    /\ peer_history = <<>>
    /\ health_status = NotShown
    /\ cancel_requested = FALSE
    /\ running = Idle
    /\ launcher = NotLaunched

Begin(name, out) ==
    /\ running.op = "idle"
    /\ running.begun < MaxStepOps
    /\ running' = [op |-> name, out |-> out, issued |-> 0, returned |-> 0,
                   begun |-> running.begun + 1]
    /\ UNCHANGED <<workflow_state, history, peer_state, peer_history, health_status,
                   cancel_requested, launcher>>

BeginUpload ==
    \E files \in FileSelections, segments \in KeywordInputs, description \in Descriptions :
        /\ ~upload_disabled(files, segments)
        /\ \E reply \in UploadReplies(files) :
             Begin("upload_materials",
                   upload_materials(workflow_state, files, ParseKeywords(segments),
                                    description, reply))

BeginProcess ==
    /\ ~process_disabled(workflow_state)
    /\ \E trend_reply \in TrendReplies, analysis_reply \in AnalysisReplies :
         Begin("start_process", start_process(workflow_state, trend_reply, analysis_reply))

BeginGenerate ==
    /\ ~generate_disabled(workflow_state)
    /\ \E style \in Styles :
         \E reply \in GenerationReplies(style) :
            Begin("generate_content", generate_content(workflow_state, style, reply))

BeginQuality ==
    /\ ~quality_disabled(workflow_state)
    /\ \E assess_reply \in AssessReplies, finalize_reply \in FinalizeReplies :
         Begin("assess_quality", assess_quality(workflow_state, assess_reply, finalize_reply))

\* the operation reaches its next client call only when the one before it
\* has returned
BlockingNever(r) == TRUE

Blocking(r) == r.issued = r.returned

IssueCall ==
    /\ running.op # "idle"
    /\ Blocking(running)
    /\ running.issued < Len(running.out.calls)
    /\ running' = [running EXCEPT !.issued = @ + 1]
    /\ UNCHANGED <<workflow_state, history, peer_state, peer_history, health_status,
                   cancel_requested, launcher>>

ReturnCall ==
    /\ running.op # "idle"
    /\ running.returned < running.issued
    /\ running' = [running EXCEPT !.returned = @ + 1]
    /\ UNCHANGED <<workflow_state, history, peer_state, peer_history, health_status,
                   cancel_requested, launcher>>

Finish ==
    /\ running.op # "idle"
    /\ running.returned = Len(running.out.calls)
    /\ Commit("A", running.op, running.out)
    /\ running' = [op |-> "idle", begun |-> running.begun]
    /\ UNCHANGED <<cancel_requested, launcher>>

NextSteps ==
    \/ BeginUpload
    \/ BeginProcess
    \/ BeginGenerate
    \/ BeginQuality
    \/ IssueCall
    \/ ReturnCall
    \/ Finish

SpecSteps == InitSteps /\ [][NextSteps]_vars

\* ------------------------------------------- the client, called directly
\* Every outcome of one exchange that is not a well-formed 2xx reply.
Faults ==
    { HttpError(500, "Internal Server Error"), HttpTimeout, HttpConnectionError,
      HttpMalformed }

\* the calls of the six gateway methods the orchestrator uses, with every
\* outcome of the remote call
GatewayCalls ==
    LET files == { f \in FileSelections : f # <<>> }
        keywords == { <<>>, <<"puzzle", "mobile">> }
    IN  UNION {
          UNION { { upload_images(f, r) : r \in UploadReplies(f) \cup Faults } : f \in files },
          { get_youtube_trends(r) : r \in TrendReplies \cup Faults },
          { analyze_drive_content(None, k, r) :
                k \in keywords, r \in AnalysisReplies \cup Faults },
          { generate_instagram_content("a puzzle board", <<"puzzle">>, "", <<>>, st, r) :
                st \in Styles, r \in GenerationReplies("modern") \cup Faults },
          { assess_image_quality("tmp/poster_123.png", "Instagram content", r) :
                r \in AssessReplies \cup Faults },
          { finalize_content("tmp/poster_123.png", "Instagram content", "modern",
                             "instagram", 15, r) :
                r \in FinalizeReplies \cup Faults } }

HealthReplies == { HttpOk([status |-> "healthy"]) } \cup Faults

\* the entry of a client method called on its own: ret tells that the method
\* returned a value to its caller rather than raising
ClientEntry(name, call) ==
    [op |-> name, ret |-> "raised" \notin DOMAIN call.result, calls |-> <<call>>]

GatewayCall ==
    /\ Len(history) < MaxClientCalls
    /\ \E call \in GatewayCalls :
         history' = Append(history, ClientEntry("gateway_call", call))
    /\ UNCHANGED <<workflow_state, peer_state, peer_history, health_status,
                   cancel_requested, running, launcher>>

ProbeCall ==
    /\ Len(history) < MaxClientCalls
    /\ \E service_name \in Services, reply \in HealthReplies :
         history' = Append(history, ClientEntry("check_service_health",
                                                check_service_health(service_name, reply)))
    /\ UNCHANGED <<workflow_state, peer_state, peer_history, health_status,
                   cancel_requested, running, launcher>>

NextClient ==
    \/ GatewayCall
    \/ ProbeCall

SpecClient == Init /\ [][NextClient]_vars


\* -------------------------------- WorkflowManager, called in any order
\* The methods check no precondition themselves: called without the buttons'
\* guards they run on whatever the state holds.
DirectUpload ==
    /\ Len(history) < MaxDirectOps
    /\ \E files \in FileSelections, segments \in KeywordInputs, description \in Descriptions :
         \E reply \in UploadReplies(files) :
            Done("A", "upload_materials",
                 upload_materials(workflow_state, files, ParseKeywords(segments),
                                  description, reply))

DirectProcess ==
    /\ Len(history) < MaxDirectOps
    /\ \E trend_reply \in TrendReplies, analysis_reply \in AnalysisReplies :
         Done("A", "start_process", start_process(workflow_state, trend_reply, analysis_reply))

DirectGenerate ==
    /\ Len(history) < MaxDirectOps
    /\ \E style \in Styles :
         \E reply \in GenerationReplies(style) :
            Done("A", "generate_content", generate_content(workflow_state, style, reply))

DirectQuality ==
    /\ Len(history) < MaxDirectOps
    /\ \E assess_reply \in AssessReplies, finalize_reply \in FinalizeReplies :
         Done("A", "assess_quality", assess_quality(workflow_state, assess_reply, finalize_reply))

DirectReset ==
    /\ Len(history) < MaxDirectOps
    /\ Done("A", "reset_workflow_state",
            Outcome(reset_workflow_state(workflow_state), TRUE, <<>>))

NextAPI ==
    \/ DirectUpload
    \/ DirectProcess
    \/ DirectGenerate
    \/ DirectQuality
    \/ DirectReset

SpecAPI == Init /\ [][NextAPI]_vars

\* ------------------------- the buttons, with exceptions of any text
\* The same buttons as in Spec, where a client method may also fail with an
\* exception whose str() is empty (MemoryError() and every exception raised
\* without arguments): its handler returns {"error": "", "success": False}.
RaisedEmpty == { HttpRaised("") }

FaultUpload ==
    /\ Len(history) < MaxFaultOps
    /\ \E files \in FileSelections, segments \in KeywordInputs, description \in Descriptions :
         /\ ~upload_disabled(files, segments)
         /\ \E reply \in UploadReplies(files) \cup RaisedEmpty :
              Done("A", "upload_materials",
                   upload_materials(workflow_state, files, ParseKeywords(segments),
                                    description, reply))

FaultProcess ==
    /\ Len(history) < MaxFaultOps
    /\ ~process_disabled(workflow_state)
    /\ \E trend_reply \in TrendReplies \cup RaisedEmpty,
          analysis_reply \in AnalysisReplies \cup RaisedEmpty :
         Done("A", "start_process", start_process(workflow_state, trend_reply, analysis_reply))

FaultGenerate ==
    /\ Len(history) < MaxFaultOps
    /\ ~generate_disabled(workflow_state)
    /\ \E style \in Styles :
         \E reply \in GenerationReplies(style) \cup RaisedEmpty :
            Done("A", "generate_content", generate_content(workflow_state, style, reply))

FaultQuality ==
    /\ Len(history) < MaxFaultOps
    /\ ~quality_disabled(workflow_state)
    /\ \E assess_reply \in AssessReplies \cup RaisedEmpty,
          finalize_reply \in FinalizeReplies \cup RaisedEmpty :
         Done("A", "assess_quality", assess_quality(workflow_state, assess_reply, finalize_reply))

NextFaults ==
    \/ FaultUpload
    \/ FaultProcess
    \/ FaultGenerate
    \/ FaultQuality

SpecFaults == Init /\ [][NextFaults]_vars

\* ------------------------------------------------ start_all.py: main()
\* SERVICES, in the order of the list
SERVICES == <<"service_upload", "service_trend", "service_analysis",
              "service_generation", "service_quality", "service_ui">>

ServiceNames == { SERVICES[k] : k \in DOMAIN SERVICES }

\* everything but the launcher
page == <<workflow_state, history, peer_state, peer_history, health_status,
          cancel_requested, running>>

Goto(l, pc) == [l EXCEPT !.pc = pc]

\* python start_all.py: processes = [], "Starting services..."
RunMain ==
    /\ launcher = NotLaunched
    /\ launcher' = [pc |-> "popen",
                    next |-> 1,
                    processes |-> <<>>,
                    child |-> [n \in ServiceNames |-> "not_launched"],
                    terminated |-> {},
                    killed |-> {},
                    i |-> 1,
                    printed |-> <<"Starting services...">>,
                    raised |-> "none"]
    /\ UNCHANGED page

\* p = subprocess.Popen(svc["cmd"], ...): the child runs, or Popen raises
\* OSError and no child exists; the exception is not a KeyboardInterrupt, so
\* it passes through finally
Popen ==
    /\ launcher.pc = "popen"
    /\ \/ launcher' = [launcher EXCEPT !.pc = "append",
                                        !.child[SERVICES[launcher.next]] = "running"]
       \/ launcher' = [launcher EXCEPT !.pc = "terminate", !.raised = "OSError"]
    /\ UNCHANGED page

\* processes.append((svc["name"], p)), and on to the next service or to
\* "All processes launched. Press Ctrl+C to stop." and the wait loop
AppendProcess ==
    /\ launcher.pc = "append"
    /\ launcher' =
         [launcher EXCEPT
            !.processes = Append(@, SERVICES[launcher.next]),
            !.next = @ + 1,
            !.pc = IF launcher.next = Len(SERVICES) THEN "wait" ELSE "popen",
            !.printed = IF launcher.next = Len(SERVICES)
                        THEN Append(@, "All processes launched. Press Ctrl+C to stop.")
                        ELSE @]
    /\ UNCHANGED page

\* Ctrl+C: KeyboardInterrupt is raised in main wherever it is.  Inside the
\* try block it is caught ("Stopping services...") and finally follows;
\* inside finally it ends main at once.
InTry(pc) == pc \in {"popen", "append", "wait"}

InFinally(pc) == pc \in {"terminate", "sleep", "kill", "report"}

CtrlC ==
    /\ InTry(launcher.pc) \/ InFinally(launcher.pc)
    /\ launcher' =
         IF InTry(launcher.pc)
         THEN [launcher EXCEPT !.pc = "terminate",
                               !.printed = Append(@, "Stopping services...")]
         ELSE [launcher EXCEPT !.pc = "exited", !.raised = "KeyboardInterrupt"]
    /\ UNCHANGED page

\* for name, p in processes: if p.poll() is None: p.terminate()
Terminate ==
    /\ launcher.pc = "terminate"
    /\ launcher' =
         IF launcher.i > Len(launcher.processes)
         THEN [launcher EXCEPT !.pc = "sleep", !.i = 1]
         ELSE LET name == launcher.processes[launcher.i]
              IN  [launcher EXCEPT
                     !.i = @ + 1,
                     !.terminated = IF launcher.child[name] = "running"
                                    THEN @ \cup {name} ELSE @]
    /\ UNCHANGED page

\* time.sleep(2)
Sleep ==
    /\ launcher.pc = "sleep"
    /\ launcher' = Goto(launcher, "kill")
    /\ UNCHANGED page

\* for name, p in processes: if p.poll() is None: p.kill()
Kill ==
    /\ launcher.pc = "kill"
    /\ launcher' =
         IF launcher.i > Len(launcher.processes)
         THEN Goto(launcher, "report")
         ELSE LET name == launcher.processes[launcher.i]
              IN  IF launcher.child[name] = "running"
                  THEN [launcher EXCEPT !.i = @ + 1,
                                        !.killed = @ \cup {name},
                                        !.child[name] = "exited"]
                  ELSE [launcher EXCEPT !.i = @ + 1]
    /\ UNCHANGED page

\* print("All services stopped."), and main returns or the exception that
\* passed through finally goes on
Report ==
    /\ launcher.pc = "report"
    /\ launcher' = [launcher EXCEPT !.pc = "exited",
                                    !.printed = Append(@, "All services stopped.")]
    /\ UNCHANGED page

\* a service process ends: on its own, or because it was told to terminate
ChildExits ==
    /\ launcher # NotLaunched
    /\ \E name \in ServiceNames :
         /\ launcher.child[name] = "running"
         /\ launcher' = [launcher EXCEPT !.child[name] = "exited"]
    /\ UNCHANGED page

NextLauncher ==
    \/ RunMain
    \/ Popen
    \/ AppendProcess
    \/ CtrlC
    \/ Terminate
    \/ Sleep
    \/ Kill
    \/ Report
    \/ ChildExits

SpecLauncher == Init /\ [][NextLauncher]_vars

\* ------------------------------------------------------------ vocabulary
step == workflow_state.step

status_logs == workflow_state.status_logs

Last(seq) == seq[Len(seq)]

last_op == IF history = <<>> THEN "none" ELSE Last(history).op

returned == IF history = <<>> THEN TRUE ELSE Last(history).ret

\* the gateway calls of the operation that returned last
calls == IF history = <<>> THEN <<>> ELSE Last(history).calls

StageOps == {"upload_materials", "start_process", "generate_content", "assess_quality"}

\* this step is one stage operation, run from start to return
StageOpStep == history' # history /\ Last(history').op \in StageOps

OpStep(name) == history' # history /\ Last(history').op = name

\* the gateways invoked by a sequence of calls
Gateways(cs) == { cs[i].gw : i \in DOMAIN cs }

\* the run is Failed: the stage operation that returned last returned False
Failed == last_op \in StageOps /\ returned = FALSE

\* a gateway result that reports failure: an error text or a false success flag
ResultFailed(result) ==
    \/ "error" \in DOMAIN result
    \/ ("success" \in DOMAIN result /\ result.success = FALSE)

AssetKeys == {"uploaded_files", "keywords", "description", "trend_data",
              "analysis_data", "generation_data", "quality_data", "final_output"}

\* the asset entries of a run: everything the stages recorded
Assets(ws) == [k \in AssetKeys \cap DOMAIN ws |-> ws[k]]

\* an asset entry that holds a stage output: a non-empty list, a text, or a
\* dict where the initial state has None
Present(ws, k) ==
    /\ k \in DOMAIN ws
    /\ IF k \in {"uploaded_files", "keywords"} THEN ws[k] # <<>>
       ELSE IF k = "description" THEN TRUE
       ELSE ws[k] # None

IsPrefix(s, t) == Len(s) <= Len(t) /\ SubSeq(t, 1, Len(s)) = s

\* ------------------------------------------------------------------- C1
\* C1: without a reset in between, no stage operation lowers the run's
\* stage (workflow_state['step']); a failure leaves it where it was.
C1_StageNeverDecreases ==
    [][StageOpStep => workflow_state'.step >= workflow_state.step]_vars

\* ------------------------------------------------------------------- C2
\* C2: after every stage operation, the asset entry of each stage is present
\* exactly when the run's step has reached that stage.
C2_AssetsIffStageReached ==
    last_op \in StageOps =>
        /\ Present(workflow_state, "uploaded_files") <=> step >= 1
        /\ Present(workflow_state, "trend_data") <=> step >= 2
        /\ Present(workflow_state, "analysis_data") <=> step >= 2
        /\ Present(workflow_state, "generation_data") <=> step >= 3
        /\ Present(workflow_state, "quality_data") <=> step >= 4
        /\ Present(workflow_state, "final_output") <=> step >= 4

\* ------------------------------------------------------------------- C3
\* C3: an upload_materials whose Upload call fails returns False (Failed),
\* records no asset entry and does not move the step, invokes no gateway
\* but Upload, and ends with an error entry; and as long as the run has not
\* left NotStarted, no operation invokes any gateway other than Upload.
C3_UploadFailureIsFatal ==
    [][/\ (OpStep("upload_materials") /\ ResultFailed(Last(history').calls[1].result))
           => /\ Last(history').ret = FALSE
              /\ Assets(workflow_state') = Assets(workflow_state)
              /\ workflow_state'.step = workflow_state.step
              /\ Gateways(Last(history').calls) = {"upload"}
              /\ Last(workflow_state'.status_logs).status = "error"
       /\ (history' # history /\ step = 0)
           => Gateways(Last(history').calls) \subseteq {"upload"}]_vars

C3_Witness ==
    /\ last_op = "upload_materials"
    /\ ResultFailed(calls[1].result)
    /\ Failed
    /\ step = 0
    /\ Assets(workflow_state) = Assets(InitialState)

C5_GenerateRemoteErrorIsFatal ==
    [][(/\ OpStep("generate_content")
        /\ Last(history').calls # <<>>
        /\ Last(history').calls[1].reply.kind = "http_error")
       => /\ Last(history').ret = FALSE
          /\ workflow_state'.step = workflow_state.step
          /\ workflow_state'.generation_data = workflow_state.generation_data
          /\ Gateways(Last(history').calls) = {"generation"}
          /\ Last(workflow_state'.status_logs).status = "error"]_vars

C5_Witness ==
    /\ last_op = "generate_content"
    /\ calls # <<>>
    /\ calls[1].reply.kind = "http_error"
    /\ Failed
    /\ Last(status_logs).status = "error"

\* ------------------------------------------------------------------- C6
\* The run of the scenario: upload_materials, start_process, generate_content
\* and assess_quality once each, in this order, from a fresh session, where
\* only the Trend call fails, with a timeout.
ScenarioRun ==
    /\ Len(history) = 4
    /\ StartsWithScenario
    /\ Len(history[4].calls[2].reply.body.finalized_content.hashtags) = 9

\* C6: the scenario run ends Finalized (step 4) with trend_data equal to the
\* default and with exactly 9 hashtags in the finalize output that the
\* terminal result records.
C6_ScenarioEndsFinalized ==
    ScenarioRun
    => /\ returned = TRUE
       /\ step = 4
       /\ workflow_state.trend_data = [trends |-> <<>>, hashtags |-> <<>>]
       /\ Present(workflow_state, "final_output")
       /\ "finalized_content" \in DOMAIN workflow_state.final_output.finalized_content
       /\ Len(workflow_state.final_output.finalized_content.finalized_content.hashtags) = 9

C6_Witness == ScenarioRun /\ step = 4

LoadBearing == {"upload", "analysis", "generation", "quality_finalize"}

C9_FailureKeepsAssets ==
    [][(StageOpStep /\ Last(history').ret = FALSE)
       => LET cs == Last(history').calls
          IN  /\ \A k \in AssetKeys :
                   Present(workflow_state, k)
                   => k \in DOMAIN workflow_state' /\ workflow_state'[k] = workflow_state[k]
              /\ IsPrefix(workflow_state.status_logs, workflow_state'.status_logs)
              /\ \A i \in DOMAIN cs :
                   (cs[i].gw = "quality_assess" /\ ~ResultFailed(cs[i].result))
                   => workflow_state'.quality_data = cs[i].result]_vars

\* ------------------------------------------------------------------ C10
\* the gateway whose result is recorded under an asset key
GatewayOf(k) ==
    CASE k \in {"uploaded_files", "keywords", "description"} -> "upload"
      [] k = "trend_data" -> "trend"
      [] k = "analysis_data" -> "analysis"
      [] k = "generation_data" -> "generation"
      [] k = "quality_data" -> "quality_assess"
      [] k = "final_output" -> "quality_finalize"

\* C10: within a run an asset entry is written once, right after its
\* gateway call succeeded, and no later operation overwrites it.
C10_AssetsWrittenOnce ==
    [][StageOpStep =>
        \A k \in AssetKeys \cap DOMAIN workflow_state' :
          LET cs == Last(history').calls
              changed == k \notin DOMAIN workflow_state
                         \/ workflow_state'[k] # workflow_state[k]
          IN  /\ Present(workflow_state, k) => ~changed
              /\ changed => \E i \in DOMAIN cs :
                              cs[i].gw = GatewayOf(k) /\ ~ResultFailed(cs[i].result)]_vars

\* ------------------------------------------------------------------ C11
\* C11: in every reachable state the final output is set only while the
\* run is Finalized (step 4) or Failed; in every other stage it is None.
C11_FinalOutputOnlyWhenFinalized ==
    ~IsNone(workflow_state.final_output) => (step = 4 \/ Failed)

\* ------------------------------------------------------------------ C12
\* a result value of a gateway method: the JSON body of the reply, or the
\* error dict with the text of the exception and success False
ErrorResult(result) ==
    /\ DOMAIN result = {"error", "success"}
    /\ result.success = FALSE

\* C12: each of the six gateway methods returns a result value for every
\* outcome of the remote call (2xx, non-2xx, connection failure, timeout,
\* malformed body) and never lets an exception reach its caller: a 2xx reply
\* with a JSON body returns that body, every other outcome the error dict.
C12_GatewayAlwaysReturns ==
    \A i \in DOMAIN history :
        history[i].op = "gateway_call" =>
            LET call == history[i].calls[1]
            IN  /\ history[i].ret = TRUE
                /\ "raised" \notin DOMAIN call.result
                /\ IF call.reply.kind = "2xx"
                   THEN call.result = call.reply.body
                   ELSE ErrorResult(call.result) /\ call.result.error = StrOfException(call.reply)

\* every method has met every kind of outcome other than a parsed 2xx body
C12_Witness ==
    /\ Len(history) = MaxClientCalls
    /\ history[1].op = "gateway_call" /\ history[1].calls[1].reply.kind = "malformed"
    /\ history[1].calls[1].gw = "generation"
    /\ history[2].op = "gateway_call" /\ history[2].calls[1].reply.kind = "connection_error"
    /\ history[2].calls[1].gw = "quality_finalize"
    /\ ErrorResult(history[2].calls[1].result)

\* ------------------------------------------------------------------ C13
\* the remote stage answered with an error: a non-2xx reply, or a 2xx reply
\* whose body carries an error text
RemoteErrored(reply) ==
    \/ reply.kind = "http_error"
    \/ reply.kind = "2xx" /\ "error" \in DOMAIN reply.body

\* the message the remote stage supplied with it
RemoteMessage(reply) ==
    IF reply.kind = "http_error" THEN reply.detail ELSE reply.body.error

Logged(text) ==
    \E i \in DOMAIN status_logs :
        \E j \in DOMAIN status_logs[i].args : status_logs[i].args[j] = text

\* C13: when a remote stage answers a call of the last operation with an
\* error, the gateway's result carries the message the remote stage
\* supplied, and the same message is in an entry of the audit log.
C13_RemoteMessagePreserved ==
    \A i \in DOMAIN calls :
        RemoteErrored(calls[i].reply) =>
            /\ "error" \in DOMAIN calls[i].result
            /\ calls[i].result.error = RemoteMessage(calls[i].reply)
            /\ Logged(RemoteMessage(calls[i].reply))

\* ------------------------------------------------------------------ C14
\* C14: every client call is issued with the finite timeout of its stage,
\* 120 s, 180 s for Generate and 5 s for a health probe, and returns to its
\* caller; when the timeout elapses what it returns is an error result (for
\* a probe: unhealthy).
C14_CallsTimeOutAndReturn ==
    \A i \in DOMAIN history :
        history[i].op \in {"gateway_call", "check_service_health"} =>
            LET call == history[i].calls[1]
            IN  /\ call.timeout = CASE call.gw = "generation" -> 180
                                    [] call.gw = "health" -> 5
                                    [] OTHER -> 120
                /\ history[i].ret = TRUE
                /\ call.reply.kind = "timeout" =>
                       IF call.gw = "health"
                       THEN call.result = [healthy |-> FALSE]
                       ELSE ErrorResult(call.result)

\* a Generate call and a health probe have both run into their timeout
C14_Witness ==
    /\ Len(history) = 2
    /\ history[1].calls[1].gw = "generation"
    /\ history[1].calls[1].reply.kind = "timeout"
    /\ history[1].calls[1].timeout = 180
    /\ history[2].calls[1].gw = "health"
    /\ history[2].calls[1].reply.kind = "timeout"
    /\ history[2].ret = TRUE

\* ------------------------------------------------------------------ C15
\* C15: every invocation of a stage operation, whether it succeeds,
\* degrades, fails on a gateway error or fails on an internal exception,
\* leaves the audit log longer than it found it.
C15_EveryInvocationLogs ==
    [][StageOpStep =>
          Len(workflow_state'.status_logs) > Len(workflow_state.status_logs)]_vars

\* generate_content has failed on an internal exception (analysis_data is
\* None), without any gateway call, and has logged it
C15_Witness ==
    /\ last_op = "generate_content"
    /\ returned = FALSE
    /\ calls = <<>>
    /\ status_logs # <<>>
    /\ Last(status_logs).status = "error"
    /\ Last(status_logs).args = <<NoneTypeError>>

\* ------------------------------------------------------------------ C16
\* C16: for every operation the log before it is a prefix of the log after
\* it: no operation removes, rewrites or reorders an entry or deletes entries.
C16_LogAppendOnly ==
    [][IsPrefix(workflow_state.status_logs, workflow_state'.status_logs)]_vars

\* C16, amended: every stage operation only appends to the log: the log
\* before it is a proper prefix of the log after it.  The one operation that
\* deletes entries is reset_workflow_state, which empties the log as it
\* starts a new run.
C16_StageOpsAppendResetEmpties ==
    [][/\ StageOpStep =>
              /\ IsPrefix(workflow_state.status_logs, workflow_state'.status_logs)
              /\ workflow_state'.status_logs # workflow_state.status_logs
       /\ OpStep("reset_workflow_state") => workflow_state'.status_logs = <<>>]_vars

\* a run has logged, was reset, and the next run has logged again
C16_Witness ==
    /\ Len(history) = 3
    /\ history[1].op \in StageOps
    /\ history[2].op = "reset_workflow_state"
    /\ history[3].op \in StageOps
    /\ status_logs # <<>>

\* ------------------------------------------------------------------ C17
\* C17: under every interleaving of the operations of two sessions, an
\* operation run for one session leaves the other session's state (stage,
\* assets, audit log) as it was, and each stage operation extends the log of
\* its own session only, so each log holds its own entries in its own order.
C17_SessionsIndependent ==
    [][/\ peer_history' # peer_history =>
              /\ workflow_state' = workflow_state
              /\ history' = history
              /\ Last(peer_history').op \in StageOps =>
                     /\ IsPrefix(peer_state.status_logs, peer_state'.status_logs)
                     /\ peer_state'.status_logs # peer_state.status_logs
       /\ history' # history =>
              /\ peer_state' = peer_state
              /\ peer_history' = peer_history
              /\ Last(history').op \in StageOps =>
                     /\ IsPrefix(workflow_state.status_logs, workflow_state'.status_logs)
                     /\ workflow_state'.status_logs # workflow_state.status_logs]_vars

\* both sessions have run operations, and they stand at different stages
\* with different logs
C17_Witness ==
    /\ Len(history) = 2
    /\ Len(peer_history) = 2
    /\ workflow_state.step = 2
    /\ peer_state.step = 1
    /\ Last(peer_history).ret = FALSE
    /\ workflow_state.status_logs # peer_state.status_logs

\* ------------------------------------------------------------------ C18
\* C18: once cancellation has been requested between two stages, the next
\* stage operation starts no gateway call and leaves the stage and the
\* assets as they were.
C18_CancelledRunStartsNoCall ==
    [][(cancel_requested /\ StageOpStep) =>
          /\ Last(history').calls = <<>>
          /\ workflow_state'.step = workflow_state.step
          /\ Assets(workflow_state') = Assets(workflow_state)]_vars

\* ------------------------------------------------------------------ C19
HealthStep == health_status' # health_status /\ health_status'.shown

\* a stage button whose own guard holds can be pressed
StageButtonsEnabled ==
    CanTrigger("A") =>
        /\ ENABLED UploadButton("A")
        /\ ~process_disabled(workflow_state) => ENABLED ProcessButton("A")
        /\ ~generate_disabled(workflow_state) => ENABLED GenerateButton("A")
        /\ ~quality_disabled(workflow_state) => ENABLED QualityButton("A")

\* C19: for every combination of healthy and unhealthy services the health
\* check returns one boolean per service and does not raise; it leaves the
\* run's stage, assets and audit log as they were; and whatever it returned,
\* every stage operation can be triggered exactly as its own guard allows.
C19_HealthCheckIndependent ==
    /\ [](health_status.shown =>
             /\ DOMAIN health_status.result = Services
             /\ \A service_name \in Services :
                    health_status.result[service_name] \in BOOLEAN
             /\ StageButtonsEnabled)
    /\ [][HealthStep => /\ workflow_state' = workflow_state
                        /\ history' = history]_vars

\* after an upload the check has found the upload and analysis services
\* unhealthy and the others healthy, and Start Process can be pressed
C19_Witness ==
    /\ health_status.shown
    /\ health_status.result = [service_name \in Services |->
                                  service_name \notin {"upload", "analysis"}]
    /\ step = 1
    /\ ENABLED ProcessButton("A")

\* ------------------------------------------------------------------ C20
\* the operation has cleared entry k: it held a value before and is None,
\* empty or absent after
Cleared(ws, ws2, k) == Present(ws, k) /\ ~Present(ws2, k)

\* C20: reset_workflow_state yields exactly the initial state of a session
\* (step 0, every asset None or empty, empty log, no final output, no stored
\* keywords or description), applying it again changes nothing, and no
\* other operation clears the step, an asset entry or the log.
C20_OnlyResetClears ==
    [][/\ OpStep("reset_workflow_state") =>
              /\ workflow_state' = InitialState
              /\ {"keywords", "description"} \cap DOMAIN workflow_state' = {}
              /\ reset_workflow_state(workflow_state') = workflow_state'
       /\ StageOpStep =>
              /\ \A k \in AssetKeys : ~Cleared(workflow_state, workflow_state', k)
              /\ workflow_state.step > 0 => workflow_state'.step > 0
              /\ workflow_state.status_logs # <<>> => workflow_state'.status_logs # <<>>]_vars

\* ------------------------------------------------------------------ C21
\* the calls of the running operation that have been issued and have not
\* returned
InFlight ==
    IF running.op = "idle" THEN {}
    ELSE { i \in 1..Len(running.out.calls) : running.returned < i /\ i <= running.issued }

\* C21: at most one gateway call of the run is in flight at any time; in
\* start_process the Analyze call is issued only after the Trend call has
\* returned its result, in assess_quality the Finalize call only after the
\* Assess call has returned.
C21_CallsSequential ==
    /\ Cardinality(InFlight) <= 1
    /\ running.op \in {"start_process", "assess_quality"} =>
           LET cs == running.out.calls
           IN  \A i \in 1..Len(cs) :
                   (i <= running.issued /\ cs[i].gw \in {"analysis", "quality_finalize"}) =>
                       /\ i = 2
                       /\ cs[1].gw = IF running.op = "start_process"
                                     THEN "trend" ELSE "quality_assess"
                       /\ running.returned >= 1

\* Finalize is in flight after the Assess call has timed out and returned
C21_Witness ==
    /\ running.op = "assess_quality"
    /\ InFlight = {2}
    /\ running.out.calls[1].reply.kind = "timeout"
    /\ running.out.calls[2].gw = "quality_finalize"

\* ------------------------------------------------------------------ C22
\* the step a run must have reached for an operation to be admitted
RequiredStep(name) ==
    CASE name = "start_process" -> 1
      [] name = "generate_content" -> 2
      [] name = "assess_quality" -> 3
      [] OTHER -> 0

OpGateways(name) ==
    CASE name = "upload_materials" -> {"upload"}
      [] name = "start_process" -> {"trend", "analysis"}
      [] name = "generate_content" -> {"generation"}
      [] name = "assess_quality" -> {"quality_assess", "quality_finalize"}
      [] OTHER -> {}

\* C23: within one invocation of a stage operation each gateway is called at
\* most once, failed or not, and only the gateways of that operation are
\* called: a gateway is called again only in a later invocation, which the
\* caller has triggered.
C23_NoAutomaticRetry ==
    \A i \in DOMAIN history :
        LET cs == history[i].calls
        IN  /\ Gateways(cs) \subseteq OpGateways(history[i].op)
            /\ \A j, k \in DOMAIN cs : cs[j].gw = cs[k].gw => j = k

\* the Upload call failed once in the first invocation, and was made once
\* more when the caller pressed the button again; the Analyze call of the
\* third invocation failed and was not repeated
C23_Witness ==
    /\ Len(history) = 3
    /\ history[1].op = "upload_materials" /\ history[1].ret = FALSE
    /\ Len(history[1].calls) = 1
    /\ history[2].op = "upload_materials" /\ history[2].ret = TRUE
    /\ Len(history[2].calls) = 1
    /\ history[3].op = "start_process" /\ history[3].ret = FALSE
    /\ ReplyKinds(history[3].calls) = <<"timeout", "timeout">>

\* ------------------------------------------------------------------ C24
\* the call did not bring back a stage result: no 2xx reply, or a body that
\* reports an error or a false success flag
CallFailed(call) ==
    \/ call.reply.kind # "2xx"
    \/ "error" \in DOMAIN call.reply.body
    \/ Get(call.reply.body, "success", TRUE) = FALSE

\* the log entries appended after the first call was made and before the
\* second one was
Between(log, cs) == { j \in DOMAIN log : cs[1].log_len < j /\ j <= cs[2].log_len }

C25_AnalyzeRequestFromUpload ==
    last_op = "start_process" =>
        LET request == calls[2].request
        IN  /\ request.keywords = workflow_state.keywords
            /\ request.description = workflow_state.description
            /\ \E k \in DOMAIN request : request[k] = workflow_state.uploaded_files

\* ------------------------------------------------------------------ C26
\* the client method's result carries a false success flag
Unsuccessful(call) ==
    "success" \in DOMAIN call.result /\ call.result.success = FALSE

\* the enrichment call was degraded: the entry logged right after it is the
\* warning, and a failed Trend call left the default trend data
Degraded(ws, call) ==
    /\ ws.status_logs[call.log_len + 1].status = "warning"
    /\ call.gw = "trend" => ws.trend_data = TrendDefault

\* C26: a gateway result whose success flag is false is never treated as a
\* stage success: a load-bearing operation that received one returns False
\* and leaves the step alone, an enrichment call that did is degraded.
C26_FalseSuccessNeverAdvances ==
    [][StageOpStep =>
         LET e == Last(history')
         IN  \A i \in DOMAIN e.calls :
                Unsuccessful(e.calls[i]) =>
                    IF e.calls[i].gw \in LoadBearing
                    THEN e.ret = FALSE /\ workflow_state'.step = workflow_state.step
                    ELSE Degraded(workflow_state', e.calls[i])]_vars

\* ------------------------------------------------------------------ C27
\* C27: whenever the step is at least 1, the stored uploaded_files and the
\* stored keywords are both non-empty, so that Start Process is enabled.
C27_UploadedMeansReady ==
    step >= 1 =>
        /\ Get(workflow_state, "uploaded_files", <<>>) # <<>>
        /\ Get(workflow_state, "keywords", <<>>) # <<>>
        /\ ~process_disabled(workflow_state)

\* ------------------------------------------------------------------ C28
Min(a, b) == IF a < b THEN a ELSE b

\* C28: the Generate request is built from the recorded assets and the style
\* argument only: the summaries and keywords are those of analysis_data, the
\* trend terms are the first min(5, n) of trend_data's n trends in their
\* order, the style token is the argument, and include_trends is true exactly
\* when a trend term is sent.  This is so whatever the service replies.
C28_GenerateRequestFromAssets ==
    ~generate_disabled(workflow_state) =>
        \A style \in Styles :
            \A reply \in GenerationReplies(style) :
                LET out == generate_content(workflow_state, style, reply)
                    request == out.calls[1].request
                    analysis == workflow_state.analysis_data
                    trends == workflow_state.trend_data.trends
                    m == Min(5, Len(trends))
                IN  /\ Len(out.calls) = 1
                    /\ out.calls[1].gw = "generation"
                    /\ request.visual_summary = analysis.visual_summary
                    /\ request.video_summary = analysis.video_summary
                    /\ request.keywords = analysis.keywords
                    /\ Len(request.trends) = m
                    /\ \A i \in 1..m : request.trends[i] = trends[i]
                    /\ request.poster_style = style
                    /\ request.include_trends <=> (m > 0)

\* generate_content has run with more than five trends recorded, and has
\* sent the first five
C28_Witness ==
    /\ last_op = "generate_content"
    /\ Len(workflow_state.trend_data.trends) = MaxTrends
    /\ calls[1].request.trends = TrendTitles(5)
    /\ calls[1].request.include_trends
    /\ calls[1].request.poster_style = "vintage"

\* ... and with no trend recorded: none is sent and include_trends is false
C28_WitnessNoTrends ==
    /\ last_op = "generate_content"
    /\ workflow_state.trend_data.trends = <<>>
    /\ calls[1].request.trends = <<>>
    /\ ~calls[1].request.include_trends

\* ------------------------------------------------------------------ C29
\* the request assess_quality hands to finalize_content in state ws; the
\* request is made before the reply to it is read
FinalizeRequest(ws, assess_reply) ==
    assess_quality(ws, assess_reply, OkReply(FinalizeReplies)).calls[2].request

\* the state of the run once generate_content has succeeded with this style
Generated(ws, style) ==
    generate_content(ws, style, OkReply(GenerationReplies(style))).ws

\* the artifact path the generation service returns, whatever the style
ArtifactPath == OkReply(GenerationReplies("modern")).body.image_path

\* C29: two runs that differ only in the style passed to generate_content
\* hand the same arguments to finalize_content: for every style, the request
\* is the one made of the image path of generation_data, the visual summary
\* of analysis_data, style "modern", platform "instagram" and max_hashtags
\* 15, none of which varies with the style.
C29_FinalizeIgnoresStyle ==
    ~generate_disabled(workflow_state) =>
        \A assess_reply \in AssessReplies, style \in Styles :
            LET run == Generated(workflow_state, style)
            IN  /\ run.generation_data.metadata.style = style
                /\ run.generation_data.image_path = ArtifactPath
                /\ FinalizeRequest(run, assess_reply)
                     = [image_path |-> ArtifactPath,
                        original_prompt |-> workflow_state.analysis_data.visual_summary,
                        style |-> "modern",
                        platform |-> "instagram",
                        max_hashtags |-> 15]

\* assess_quality has run on a poster generated in the vintage style, and
\* has asked for the modern one
C29_Witness ==
    /\ last_op = "assess_quality"
    /\ workflow_state.generation_data.metadata.style = "vintage"
    /\ Len(calls) = 2
    /\ calls[2].gw = "quality_finalize"
    /\ calls[2].request.style = "modern"
    /\ calls[2].request.image_path = workflow_state.generation_data.image_path

\* ------------------------------------------------------------------ C30
Launched(name) == launcher.child[name] # "not_launched"

StoppedReported ==
    \E j \in DOMAIN launcher.printed : launcher.printed[j] = "All services stopped."

\* C30: the services are launched in the order of SERVICES, and main never
\* leaves a child behind: every child that was killed had been sent the
\* terminate signal first, and once "All services stopped." is reported or
\* main has exited, no launched child is still running.
C30_NoChildLeftBehind ==
    launcher # NotLaunched =>
        /\ \A k \in DOMAIN SERVICES :
              Launched(SERVICES[k]) => \A j \in 1..k : Launched(SERVICES[j])
        /\ launcher.killed \subseteq launcher.terminated
        /\ (StoppedReported \/ launcher.pc = "exited") =>
              \A name \in ServiceNames : launcher.child[name] # "running"

====
